---- MODULE Spec2Model ----
(***************************************************************************)
(* A model of the openfga-demo gateway: the identity middleware, the       *)
(* permission checker, the four CRUD handlers mounted by the router, and   *)
(* the two discovery handlers (single ListObjects query and the 9-way      *)
(* fan-out with its merge).                                                *)
(*                                                                         *)
(* Strings that the code builds or parses (principals, path parameters,    *)
(* object identifiers) are sequences of one-character strings, so that     *)
(* format!, strip_prefix, split and trim are computed character by         *)
(* character.  Error messages are sequences of text fragments; `contains`  *)
(* looks for a fragment.  Literals the code only passes through (relation  *)
(* names, JSON messages) are plain strings.                                *)
(***************************************************************************)
EXTENDS Integers, Sequences, FiniteSets, TLC

VARIABLES
    store_id,                \* ctx.fga_config.store_id
    authorization_model_id,  \* ctx.fga_config.authorization_model_id (Option)
    reachable,               \* whether the authority can be reached at all
    pc,                      \* where the request in flight is suspended
    req,                     \* the request in flight
    calls,                   \* RPCs sent to the authority by this request
    replies,                 \* the authority's answer to each of them
    check_ret,               \* what check_permission returned to the handler
    shared_services,         \* get_shared_resources: accumulating vectors
    shared_service_types,
    shared_resources,
    resp,                    \* the HTTP response of the request
    prev                     \* history: the last Check answered and its answer

vars == <<store_id, authorization_model_id, reachable, pc, req, calls, replies,
          check_ret, shared_services, shared_service_types, shared_resources, resp,
          prev>>

(***************************************************************************)
(* Bounds of the model.                                                    *)
(***************************************************************************)
\* what a reachable authority does to the ListObjects queries of one request,
\* all queries together: the objects it returns plus the queries it rejects
MaxEvents == 2

(***************************************************************************)
(* Option<T> and strings.                                                  *)
(***************************************************************************)
None == [some |-> FALSE, val |-> <<>>]
Some(v) == [some |-> TRUE, val |-> v]

\* format!("user:{}", ..) and friends: the literal prefixes of the code
UserPrefix == <<"u", "s", "e", "r", ":">>
OrganisationPrefix == <<"o", "r", "g", "a", "n", "i", "s", "a", "t", "i", "o", "n", ":">>
ServicePrefix == <<"s", "e", "r", "v", "i", "c", "e", ":">>
ServiceTypePrefix == <<"s", "e", "r", "v", "i", "c", "e", "_", "t", "y", "p", "e", ":">>
ResourcePrefix == <<"r", "e", "s", "o", "u", "r", "c", "e", ":">>
Slash == <<"/">>

\* str::strip_prefix: Some(rest) when s starts with p, None otherwise
strip_prefix(s, p) ==
    IF Len(s) >= Len(p) /\ SubSeq(s, 1, Len(p)) = p
    THEN Some(SubSeq(s, Len(p) + 1, Len(s)))
    ELSE None

\* str::split('/').collect(): the segments between the slashes, empty ones kept
RECURSIVE split(_)
split(s) ==
    IF \A i \in 1..Len(s) : s[i] # "/"
    THEN <<s>>
    ELSE LET k == CHOOSE i \in 1..Len(s) : s[i] = "/" /\ \A j \in 1..(i - 1) : s[j] # "/"
         IN  <<SubSeq(s, 1, k - 1)>> \o split(SubSeq(s, k + 1, Len(s)))

\* str::trim: leading and trailing whitespace removed
RECURSIVE trim(_)
trim(s) ==
    IF s = <<>> THEN s
    ELSE IF Head(s) = " " THEN trim(Tail(s))
    ELSE IF s[Len(s)] = " " THEN trim(SubSeq(s, 1, Len(s) - 1))
    ELSE s

\* str::contains on an error message: the message holds the fragment
contains(msg, fragment) == \E i \in 1..Len(msg) : msg[i] = fragment

(***************************************************************************)
(* The inputs: configuration, headers, path parameters, payloads and the   *)
(* authority's possible answers.                                           *)
(***************************************************************************)
StoreIds == {<<>>, <<"s", "1">>}
ModelIds == {None, Some(<<"m", "1">>)}

\* the X-User-Id header: absent, present but not visible ASCII, or text
NoHeader == [present |-> FALSE, text |-> FALSE, value |-> <<>>]
BinaryHeader == [present |-> TRUE, text |-> FALSE, value |-> <<>>]
TextHeader(v) == [present |-> TRUE, text |-> TRUE, value |-> v]
HeaderTexts == {<<>>, <<" ">>, <<"a">>, <<"b", " ">>}
Headers == {NoHeader, BinaryHeader} \cup {TextHeader(v) : v \in HeaderTexts}

\* principals the discovery handlers are called with (Extension<AuthUser>)
Principals == {<<"a">>, <<"b", " ">>}

Segments == {<<"x">>, <<"y">>}
ResourceParams ==
    [service_name : {<<"s">>}, service_type : {<<"t">>}, org_id : Segments, name : Segments]

\* JSON bodies of create and update; get and delete carry none
NoPayload == [organisation |-> <<>>, name |-> <<>>]
Payloads == {NoPayload, [organisation |-> <<"z">>, name |-> <<"w">>]}

Operations == {"create", "update", "read", "delete"}

\* tonic::Status as text, by fragments
TransportErrors ==
    { <<"status: Unknown, message: ", "transport error">>,
      <<"tcp connect error: ", "Connection refused", " (os error 111)">> }
RejectErrors ==
    { <<"status: InvalidArgument, message: ", "invalid CheckRequest">> }
AuthorityErrors == TransportErrors \cup RejectErrors

\* ?relation= and ?object_type= of list_objects (Option<String>)
NoParam == [some |-> FALSE, val |-> ""]
RelationParams == {NoParam, [some |-> TRUE, val |-> "editor"]}
ObjectTypeParams == {NoParam, [some |-> TRUE, val |-> "service"]}

\* object identifiers the authority may return: well-formed ones of each type,
\* a service_type with three segments and a resource with four
Pool ==
    { ServicePrefix \o <<"a">>,
      ServiceTypePrefix \o <<"a", "/", "b">>,
      ServiceTypePrefix \o <<"a", "/", "b", "/", "c">>,
      ResourcePrefix \o <<"a", "/", "b", "/", "c">>,
      ResourcePrefix \o <<"a", "/", "b", "/", "c", "/", "d">> }

RECURSIVE SeqsUpTo(_, _)
SeqsUpTo(S, n) ==
    IF n = 0 THEN {<<>>}
    ELSE LET shorter == SeqsUpTo(S, n - 1)
         IN  shorter \cup {Append(q, x) : q \in shorter, x \in S}

Ok(v) == [tag |-> "Ok", allowed |-> v, msg |-> <<>>]
Err(m) == [tag |-> "Err", allowed |-> FALSE, msg |-> m]
NoResult == [tag |-> "None", allowed |-> FALSE, msg |-> <<>>]

\* what the authority may answer to a Check
CheckReplies ==
    IF reachable
    THEN {Ok(b) : b \in BOOLEAN} \cup {Err(m) : m \in RejectErrors}
    ELSE {Err(m) : m \in TransportErrors}

ListOk(objects) == [tag |-> "Ok", objects |-> objects, msg |-> <<>>]
ListErr(m) == [tag |-> "Err", objects |-> <<>>, msg |-> m]

RECURSIVE ObjectsReturned(_)
ObjectsReturned(rs) ==
    IF rs = <<>> THEN 0 ELSE Len(Head(rs).objects) + ObjectsReturned(Tail(rs))

RECURSIVE Failures(_)
Failures(rs) ==
    IF rs = <<>> THEN 0
    ELSE (IF Head(rs).tag = "Err" THEN 1 ELSE 0) + Failures(Tail(rs))

\* what the authority may answer to the next ListObjects of a request
ListReplies ==
    LET left == MaxEvents - ObjectsReturned(replies) - Failures(replies)
    IN  IF reachable
        THEN {ListOk(objects) : objects \in SeqsUpTo(Pool, left)}
             \cup (IF left > 0 THEN {ListErr(m) : m \in RejectErrors} ELSE {})
        ELSE {ListErr(m) : m \in TransportErrors}

(***************************************************************************)
(* HTTP status codes and responses.                                        *)
(***************************************************************************)
StatusOk == 200
StatusCreated == 201
StatusBadRequest == 400
StatusUnauthorized == 401
StatusForbidden == 403
StatusInternalServerError == 500

NoBody == [kind |-> "none"]
NoResp == [status |-> 0, body |-> NoBody]
NoReq == [op |-> "none", authenticated |-> FALSE]

(***************************************************************************)
(* auth.rs: the identity middleware.                                       *)
(***************************************************************************)
\* faulty variant: the principal handed on is the trimmed header value
auth_middleware_trimmed(header) ==
    IF ~header.present
    THEN [ok |-> FALSE, user_id |-> <<>>,
          resp |-> [status |-> StatusUnauthorized,
                    body |-> [kind |-> "error", error |-> "Missing authentication",
                              message |-> <<"X-User-Id header is required">>]]]
    ELSE IF ~header.text
    THEN [ok |-> FALSE, user_id |-> <<>>,
          resp |-> [status |-> StatusBadRequest,
                    body |-> [kind |-> "error", error |-> "Invalid header format",
                              message |-> <<"X-User-Id header must be valid UTF-8">>]]]
    ELSE IF trim(header.value) = <<>>
    THEN [ok |-> FALSE, user_id |-> <<>>,
          resp |-> [status |-> StatusBadRequest,
                    body |-> [kind |-> "error", error |-> "Invalid user ID",
                              message |-> <<"X-User-Id header cannot be empty">>]]]
    ELSE [ok |-> TRUE, user_id |-> trim(header.value), resp |-> NoResp]

\* Ok(user_id) to continue to the handler, or the short-circuit response
auth_middleware(header) ==
    IF ~header.present
    THEN [ok |-> FALSE, user_id |-> <<>>,
          resp |-> [status |-> StatusUnauthorized,
                    body |-> [kind |-> "error", error |-> "Missing authentication",
                              message |-> <<"X-User-Id header is required">>]]]
    ELSE IF ~header.text
    THEN [ok |-> FALSE, user_id |-> <<>>,
          resp |-> [status |-> StatusBadRequest,
                    body |-> [kind |-> "error", error |-> "Invalid header format",
                              message |-> <<"X-User-Id header must be valid UTF-8">>]]]
    ELSE IF trim(header.value) = <<>>
    THEN [ok |-> FALSE, user_id |-> <<>>,
          resp |-> [status |-> StatusBadRequest,
                    body |-> [kind |-> "error", error |-> "Invalid user ID",
                              message |-> <<"X-User-Id header cannot be empty">>]]]
    ELSE [ok |-> TRUE, user_id |-> header.value, resp |-> NoResp]

(***************************************************************************)
(* controller.rs: check_permission.                                        *)
(***************************************************************************)
\* faulty variant: the model id is not looked at
ConfigErrorStoreOnly ==
    IF store_id = <<>> THEN Some(<<"OpenFGA store ID not configured">>) ELSE None

\* the configuration precondition: the error returned before any call
ConfigError ==
    IF store_id = <<>> THEN Some(<<"OpenFGA store ID not configured">>)
    ELSE IF ~authorization_model_id.some
    THEN Some(<<"OpenFGA authorization model ID not configured">>)
    ELSE None

\* the tuple key of the Check
TupleKey(user_id, relation, object_id) ==
    [user |-> UserPrefix \o user_id, relation |-> relation, object |-> object_id]

\* the CheckRequest sent to the authority
CheckRequest(user_id, relation, object_id) ==
    LET tuple_key == TupleKey(user_id, relation, object_id)
    IN  [rpc |-> "Check",
         store_id |-> store_id,
         authorization_model_id |-> authorization_model_id.val,
         user |-> tuple_key.user,
         relation |-> tuple_key.relation,
         object |-> tuple_key.object,
         type |-> "",
         consistency |-> 0]

\* the (user, relation, object) of a Check that was sent
TupleOf(call) == [user |-> call.user, relation |-> call.relation, object |-> call.object]

\* no Check has been answered yet
NoPrev == [some |-> FALSE]

\* faulty variant: the decision of the last request is reused for the same tuple
CheckOutcomeCached(reply) ==
    IF prev.some /\ prev.reply.tag = "Ok" /\ calls # <<>> /\ prev.key = TupleOf(calls[1])
    THEN Ok(prev.reply.allowed)
    ELSE IF reply.tag = "Ok" THEN Ok(reply.allowed)
    ELSE IF contains(reply.msg, "transport error") \/ contains(reply.msg, "Connection refused")
    THEN Err(<<"OpenFGA server is not available. Please check server status and configuration.">>)
    ELSE Err(<<"OpenFGA permission check failed: ">> \o reply.msg)

\* faulty variant: a failed Check is taken for an allow (fail-open)
CheckOutcomeFailOpen(reply) ==
    IF reply.tag = "Ok" THEN Ok(reply.allowed) ELSE Ok(TRUE)

\* faulty variant: only "transport error" counts as unavailable
CheckOutcomeTransportOnly(reply) ==
    IF reply.tag = "Ok" THEN Ok(reply.allowed)
    ELSE IF contains(reply.msg, "transport error")
    THEN Err(<<"OpenFGA server is not available. Please check server status and configuration.">>)
    ELSE Err(<<"OpenFGA permission check failed: ">> \o reply.msg)

\* the match on the Check's outcome: the decision verbatim, or a classified error
CheckOutcome(reply) ==
    IF reply.tag = "Ok" THEN Ok(reply.allowed)
    ELSE IF contains(reply.msg, "transport error") \/ contains(reply.msg, "Connection refused")
    THEN Err(<<"OpenFGA server is not available. Please check server status and configuration.">>)
    ELSE Err(<<"OpenFGA permission check failed: ">> \o reply.msg)

(***************************************************************************)
(* controller.rs: the CRUD handlers.                                       *)
(***************************************************************************)
\* format!("{}/{}/{}/{}", service_name, service_type, org_id, name)
resource_key(params) ==
    params.service_name \o Slash \o params.service_type \o Slash
        \o params.org_id \o Slash \o params.name

\* format!("organisation:{}", org_id)
org_key(params) == OrganisationPrefix \o params.org_id

\* the relation each handler passes to check_permission
RequiredRelation(op) ==
    CASE op = "create" -> "admin"
      [] op = "update" -> "editor"
      [] op = "read" -> "viewer"
      [] op = "delete" -> "owner"

\* the object each handler passes to check_permission
TargetObject(op, params) ==
    IF op = "create" THEN org_key(params) ELSE resource_key(params)

DeniedMessage(op) ==
    CASE op = "create" -> <<"You do not have permission to create this resource">>
      [] op = "update" -> <<"You do not have permission to update this resource">>
      [] op = "read" -> <<"You do not have permission to view this resource">>
      [] op = "delete" -> <<"You do not have permission to delete this resource">>

\* faulty variant: create echoes the payload's organisation
SuccessResponseFromPayload(op, params, payload) ==
    CASE op = "create" ->
            [status |-> StatusCreated,
             body |-> [kind |-> "created", message |-> "Resource created successfully",
                       organisation |-> payload.organisation]]
      [] op = "update" ->
            [status |-> StatusOk,
             body |-> [kind |-> "updated", message |-> "Resource updated successfully",
                       resource_id |-> resource_key(params)]]
      [] op = "read" ->
            [status |-> StatusOk,
             body |-> [kind |-> "resource", resource_id |-> resource_key(params),
                       name |-> params.name, service_name |-> params.service_name,
                       service_type |-> params.service_type, org_id |-> params.org_id]]
      [] op = "delete" ->
            [status |-> StatusOk,
             body |-> [kind |-> "deleted", message |-> "Resource deleted successfully",
                       resource_id |-> resource_key(params)]]

\* the Ok((status, Json(..))) of each handler
SuccessResponse(op, params, payload) ==
    CASE op = "create" ->
            [status |-> StatusCreated,
             body |-> [kind |-> "created", message |-> "Resource created successfully",
                       organisation |-> params.org_id]]
      [] op = "update" ->
            [status |-> StatusOk,
             body |-> [kind |-> "updated", message |-> "Resource updated successfully",
                       resource_id |-> resource_key(params)]]
      [] op = "read" ->
            [status |-> StatusOk,
             body |-> [kind |-> "resource", resource_id |-> resource_key(params),
                       name |-> params.name, service_name |-> params.service_name,
                       service_type |-> params.service_type, org_id |-> params.org_id]]
      [] op = "delete" ->
            [status |-> StatusOk,
             body |-> [kind |-> "deleted", message |-> "Resource deleted successfully",
                       resource_id |-> resource_key(params)]]

\* faulty variant: a checker error is reported as a denial
HandlerResponseDenyOnError(op, params, payload, result) ==
    IF result.tag = "Ok" /\ result.allowed
    THEN SuccessResponse(op, params, payload)
    ELSE [status |-> StatusForbidden,
          body |-> [kind |-> "error", error |-> "Permission denied",
                    message |-> DeniedMessage(op)]]

\* the handler's match on check_permission's result
HandlerResponse(op, params, payload, result) ==
    IF result.tag = "Ok"
    THEN IF ~result.allowed
         THEN [status |-> StatusForbidden,
               body |-> [kind |-> "error", error |-> "Permission denied",
                         message |-> DeniedMessage(op)]]
         ELSE SuccessResponse(op, params, payload)
    ELSE [status |-> StatusInternalServerError,
          body |-> [kind |-> "error", error |-> "Failed to check permission",
                    message |-> result.msg]]

(***************************************************************************)
(* The state machine of the router's protected routes.                     *)
(***************************************************************************)
InitConfig ==
    /\ store_id \in StoreIds
    /\ authorization_model_id \in ModelIds

InitIdle ==
    /\ reachable \in BOOLEAN
    /\ pc = "idle"
    /\ req = NoReq
    /\ calls = <<>>
    /\ replies = <<>>
    /\ check_ret = NoResult
    /\ shared_services = <<>>
    /\ shared_service_types = <<>>
    /\ shared_resources = <<>>
    /\ resp = NoResp
    /\ prev = NoPrev

Init == InitConfig /\ InitIdle

unchanged_config == UNCHANGED <<store_id, authorization_model_id, reachable>>
unchanged_history == UNCHANGED prev
unchanged_fanout == UNCHANGED <<shared_services, shared_service_types, shared_resources>>

\* a request to /api/resource/{service_name}/{service_type}/{org_id}/{name}: the
\* middleware, then the handler up to the await of the Check in check_permission
CrudRequest(op, header, params, payload) ==
    /\ pc = "idle"
    /\ LET auth == auth_middleware(header)
           request == [op |-> op, header |-> header, authenticated |-> auth.ok,
                       user_id |-> auth.user_id, params |-> params, payload |-> payload]
       IN  /\ req' = request
           /\ replies' = <<>>
           /\ IF ~auth.ok
              THEN /\ calls' = <<>>
                   /\ check_ret' = NoResult
                   /\ resp' = auth.resp
                   /\ pc' = "done"
              ELSE IF ConfigError.some
              THEN /\ calls' = <<>>
                   /\ check_ret' = Err(ConfigError.val)
                   /\ resp' = HandlerResponse(op, params, payload, Err(ConfigError.val))
                   /\ pc' = "done"
              ELSE /\ calls' = <<CheckRequest(auth.user_id, RequiredRelation(op),
                                             TargetObject(op, params))>>
                   /\ check_ret' = NoResult
                   /\ resp' = NoResp
                   /\ pc' = "check"
    /\ unchanged_config
    /\ unchanged_fanout
    /\ unchanged_history

create_resource ==
    \E header \in Headers, params \in ResourceParams, payload \in Payloads :
        CrudRequest("create", header, params, payload)

update_resource ==
    \E header \in Headers, params \in ResourceParams, payload \in Payloads :
        CrudRequest("update", header, params, payload)

get_resource ==
    \E header \in Headers, params \in ResourceParams :
        CrudRequest("read", header, params, NoPayload)

delete_resource ==
    \E header \in Headers, params \in ResourceParams :
        CrudRequest("delete", header, params, NoPayload)

\* the Check returns: check_permission's match, then the handler's
CheckReturns ==
    /\ pc = "check"
    /\ \E reply \in CheckReplies :
        LET result == CheckOutcome(reply)
        IN  /\ replies' = Append(replies, reply)
            /\ check_ret' = result
            /\ resp' = HandlerResponse(req.op, req.params, req.payload, result)
    /\ pc' = "done"
    /\ UNCHANGED <<req, calls>>
    /\ unchanged_config
    /\ unchanged_fanout
    /\ unchanged_history

\* the response is written; everything request-scoped is dropped
Respond ==
    /\ pc = "done"
    /\ pc' = "idle"
    /\ req' = NoReq
    /\ calls' = <<>>
    /\ replies' = <<>>
    /\ check_ret' = NoResult
    /\ shared_services' = <<>>
    /\ shared_service_types' = <<>>
    /\ shared_resources' = <<>>
    /\ resp' = NoResp
    /\ prev' = IF req.op \in Operations /\ replies # <<>>
               THEN [some |-> TRUE, key |-> TupleOf(calls[1]), reply |-> replies[1]]
               ELSE prev
    /\ unchanged_config

\* between requests the authority goes down or comes back
AuthorityChanges ==
    /\ pc = "idle"
    /\ reachable' = ~reachable
    /\ UNCHANGED <<store_id, authorization_model_id, pc, req, calls, replies, check_ret,
                   shared_services, shared_service_types, shared_resources, resp>>
    /\ unchanged_history

Next ==
    \/ create_resource
    \/ update_resource
    \/ get_resource
    \/ delete_resource
    \/ CheckReturns
    \/ Respond
    \/ AuthorityChanges

Spec == Init /\ [][Next]_vars

(***************************************************************************)
(* controller.rs: list_objects, the single ListObjects query.             *)
(***************************************************************************)
Consistency == 8

\* Option::unwrap_or_else
unwrap_or(opt, default) == IF opt.some THEN opt.val ELSE default

\* the ListObjectsRequest both discovery handlers build
ListObjectsRequest(user_id, object_type, relation) ==
    [rpc |-> "ListObjects",
     store_id |-> store_id,
     authorization_model_id |-> unwrap_or(authorization_model_id, <<>>),
     user |-> user_id,
     relation |-> relation,
     object |-> <<>>,
     type |-> object_type,
     consistency |-> Consistency]

\* faulty variant: total_count counts the distinct objects
ListResponseCountsDistinct(object_type, relation, reply) ==
    IF reply.tag = "Ok"
    THEN [status |-> StatusOk,
          body |-> [kind |-> "list", objects |-> reply.objects,
                    total_count |-> Cardinality({reply.objects[k] : k \in DOMAIN reply.objects}),
                    object_type |-> object_type, relation |-> relation]]
    ELSE [status |-> StatusInternalServerError,
          body |-> [kind |-> "error", error |-> "Failed to list objects",
                    message |-> reply.msg]]

\* the match of list_objects on the query's outcome
ListResponse(object_type, relation, reply) ==
    IF reply.tag = "Ok"
    THEN [status |-> StatusOk,
          body |-> [kind |-> "list", objects |-> reply.objects,
                    total_count |-> Len(reply.objects),
                    object_type |-> object_type, relation |-> relation]]
    ELSE [status |-> StatusInternalServerError,
          body |-> [kind |-> "error", error |-> "Failed to list objects",
                    message |-> reply.msg]]

(***************************************************************************)
(* controller.rs: get_shared_resources, the fan-out and its merge.         *)
(***************************************************************************)
object_types == <<"service", "service_type", "resource">>
relations == <<"viewer", "editor", "admin">>

\* the fan-out's nested loops, flattened: query i of object_types x relations
FanOut == Len(object_types) * Len(relations)
QueryType(i) == object_types[((i - 1) \div Len(relations)) + 1]
QueryRelation(i) == relations[((i - 1) % Len(relations)) + 1]

\* faulty variant: the number of path segments is not checked
ParseObjectAnySegments(object_type, relation, object_id) ==
    CASE object_type = "service" ->
            LET service_name == strip_prefix(object_id, ServicePrefix)
            IN  IF service_name.some
                THEN <<[id |-> object_id, name |-> service_name.val,
                        shared_via |-> "parent_organization",
                        permissions |-> <<relation>>]>>
                ELSE <<>>
      [] object_type = "service_type" ->
            LET service_type_path == strip_prefix(object_id, ServiceTypePrefix)
                parts == split(service_type_path.val)
            IN  IF service_type_path.some /\ Len(parts) >= 2
                THEN <<[id |-> object_id, service_name |-> parts[1],
                        service_type |-> parts[2],
                        shared_via |-> "parent_organization",
                        permissions |-> <<relation>>]>>
                ELSE <<>>
      [] object_type = "resource" ->
            LET resource_path == strip_prefix(object_id, ResourcePrefix)
                parts == split(resource_path.val)
            IN  IF resource_path.some /\ Len(parts) >= 3
                THEN <<[id |-> object_id, service_name |-> parts[1],
                        service_type |-> parts[2], resource_name |-> parts[3],
                        shared_via |-> "parent_organization",
                        permissions |-> <<relation>>]>>
                ELSE <<>>
      [] OTHER -> <<>>

\* faulty variant: a service id that lacks the prefix is kept, named by the whole id
ParseObjectAnyPrefix(object_type, relation, object_id) ==
    CASE object_type = "service" ->
            LET service_name == strip_prefix(object_id, ServicePrefix)
            IN  <<[id |-> object_id, name |-> unwrap_or(service_name, object_id),
                   shared_via |-> "parent_organization",
                   permissions |-> <<relation>>]>>
      [] object_type = "service_type" ->
            LET service_type_path == strip_prefix(object_id, ServiceTypePrefix)
                parts == split(service_type_path.val)
            IN  IF service_type_path.some /\ Len(parts) = 2
                THEN <<[id |-> object_id, service_name |-> parts[1],
                        service_type |-> parts[2],
                        shared_via |-> "parent_organization",
                        permissions |-> <<relation>>]>>
                ELSE <<>>
      [] object_type = "resource" ->
            LET resource_path == strip_prefix(object_id, ResourcePrefix)
                parts == split(resource_path.val)
            IN  IF resource_path.some /\ Len(parts) = 3
                THEN <<[id |-> object_id, service_name |-> parts[1],
                        service_type |-> parts[2], resource_name |-> parts[3],
                        shared_via |-> "parent_organization",
                        permissions |-> <<relation>>]>>
                ELSE <<>>
      [] OTHER -> <<>>

\* one object id of a query's answer, parsed per the queried type: the record
\* pushed onto that type's vector, or nothing
ParseObject(object_type, relation, object_id) ==
    CASE object_type = "service" ->
            LET service_name == strip_prefix(object_id, ServicePrefix)
            IN  IF service_name.some
                THEN <<[id |-> object_id, name |-> service_name.val,
                        shared_via |-> "parent_organization",
                        permissions |-> <<relation>>]>>
                ELSE <<>>
      [] object_type = "service_type" ->
            LET service_type_path == strip_prefix(object_id, ServiceTypePrefix)
                parts == split(service_type_path.val)
            IN  IF service_type_path.some /\ Len(parts) = 2
                THEN <<[id |-> object_id, service_name |-> parts[1],
                        service_type |-> parts[2],
                        shared_via |-> "parent_organization",
                        permissions |-> <<relation>>]>>
                ELSE <<>>
      [] object_type = "resource" ->
            LET resource_path == strip_prefix(object_id, ResourcePrefix)
                parts == split(resource_path.val)
            IN  IF resource_path.some /\ Len(parts) = 3
                THEN <<[id |-> object_id, service_name |-> parts[1],
                        service_type |-> parts[2], resource_name |-> parts[3],
                        shared_via |-> "parent_organization",
                        permissions |-> <<relation>>]>>
                ELSE <<>>
      [] OTHER -> <<>>

\* for object_id in objects { .. }: the records one answer contributes, in order
RECURSIVE ParseObjects(_, _, _)
ParseObjects(object_type, relation, objects) ==
    IF objects = <<>> THEN <<>>
    ELSE ParseObject(object_type, relation, Head(objects))
            \o ParseObjects(object_type, relation, Tail(objects))

\* the match on one query's outcome: Ok pushes its records, Err only warns
Contribution(object_type, relation, reply) ==
    IF reply.tag = "Ok" THEN ParseObjects(object_type, relation, reply.objects) ELSE <<>>

\* faulty variant: a failed query throws away what was gathered so far
PushOrReset(vec, collection, object_type, relation, reply) ==
    IF reply.tag = "Err" THEN <<>>
    ELSE IF object_type = collection
    THEN vec \o Contribution(object_type, relation, reply)
    ELSE vec

\* the vector of collection `collection` after query (object_type, relation)
Push(vec, collection, object_type, relation, reply) ==
    IF object_type = collection
    THEN vec \o Contribution(object_type, relation, reply)
    ELSE vec

\* String's ordering on the relation names
RelationOrder == <<"admin", "editor", "owner", "viewer">>
Rank(r) == CHOOSE k \in 1..Len(RelationOrder) : RelationOrder[k] = r

\* Vec::sort
RECURSIVE insert_sorted(_, _)
insert_sorted(sorted, r) ==
    IF sorted = <<>> THEN <<r>>
    ELSE IF Rank(r) < Rank(Head(sorted)) THEN <<r>> \o sorted
    ELSE <<Head(sorted)>> \o insert_sorted(Tail(sorted), r)

RECURSIVE sort(_)
sort(v) == IF v = <<>> THEN <<>> ELSE insert_sorted(sort(SubSeq(v, 1, Len(v) - 1)), v[Len(v)])

\* Vec::dedup: consecutive repeats removed
RECURSIVE dedup(_)
dedup(v) ==
    IF Len(v) < 2 THEN v
    ELSE IF v[1] = v[2] THEN dedup(Tail(v))
    ELSE <<v[1]>> \o dedup(Tail(v))

\* faulty variant: extend and sort, without dedup
merge_permissions_no_dedup(existing, new) == sort(existing \o new)

\* the and_modify closure: extend, sort, dedup
merge_permissions(existing, new) == dedup(sort(existing \o new))

\* faulty variant: map.insert(id, record), the later record replaces the earlier
merge_entry_overwrite(map, record) ==
    [id \in DOMAIN map \cup {record.id} |-> IF id = record.id THEN record ELSE map[id]]

\* map.entry(id).and_modify(..).or_insert(record)
merge_entry(map, record) ==
    IF record.id \in DOMAIN map
    THEN [map EXCEPT ![record.id].permissions = merge_permissions(@, record.permissions)]
    ELSE [id \in DOMAIN map \cup {record.id} |->
            IF id = record.id THEN record ELSE map[id]]

\* for record in vec { .. } over an empty HashMap
RECURSIVE merge_from(_, _)
merge_from(map, vec) ==
    IF vec = <<>> THEN map ELSE merge_from(merge_entry(map, Head(vec)), Tail(vec))

EmptyMap == [id \in {} |-> <<>>]
merge(vec) == merge_from(EmptyMap, vec)

\* map.into_values().collect(): the records, in no particular order
into_values(map) == {map[id] : id \in DOMAIN map}

\* the outcome of the fan-out once its loops are over
SharedResourcesResponse(services, service_types, resources) ==
    [status |-> StatusOk,
     body |-> [kind |-> "shared",
               services |-> into_values(merge(services)),
               service_types |-> into_values(merge(service_types)),
               resources |-> into_values(merge(resources))]]

(***************************************************************************)
(* The state machine of the discovery handlers.  create_routes mounts      *)
(* neither of them, so they are not behind auth_middleware: their          *)
(* principal is whatever Extension<AuthUser> holds.                        *)
(***************************************************************************)
\* list_objects up to the await of its query
list_objects ==
    /\ pc = "idle"
    /\ \E user_id \in Principals, relation \in RelationParams, object_type \in ObjectTypeParams :
        LET rel == unwrap_or(relation, "viewer")
            type == unwrap_or(object_type, "resource")
        IN  /\ req' = [op |-> "list", authenticated |-> TRUE, user_id |-> user_id,
                       relation |-> relation, object_type |-> object_type]
            /\ calls' = <<ListObjectsRequest(user_id, type, rel)>>
    /\ pc' = "list"
    /\ UNCHANGED <<replies, check_ret, resp>>
    /\ unchanged_config
    /\ unchanged_fanout
    /\ unchanged_history

\* the query of list_objects returns
ListReturns ==
    /\ pc = "list"
    /\ \E reply \in ListReplies :
        /\ replies' = Append(replies, reply)
        /\ resp' = ListResponse(calls[1].type, calls[1].relation, reply)
    /\ pc' = "done"
    /\ UNCHANGED <<req, calls, check_ret>>
    /\ unchanged_config
    /\ unchanged_fanout
    /\ unchanged_history

\* get_shared_resources up to the await of its first query
get_shared_resources ==
    /\ pc = "idle"
    /\ \E user_id \in Principals :
        /\ req' = [op |-> "shared", authenticated |-> TRUE, user_id |-> user_id]
        /\ calls' = <<ListObjectsRequest(user_id, QueryType(1), QueryRelation(1))>>
    /\ pc' = "fanout"
    /\ UNCHANGED <<replies, check_ret, resp>>
    /\ unchanged_config
    /\ unchanged_fanout
    /\ unchanged_history

\* query i of the fan-out returns: its records are pushed, then either the next
\* query is sent or, after the last one, the vectors are merged and returned
FanOutReturns ==
    /\ pc = "fanout"
    /\ \E reply \in ListReplies :
        LET i == Len(calls)
            services == Push(shared_services, "service", QueryType(i), QueryRelation(i), reply)
            service_types ==
                Push(shared_service_types, "service_type", QueryType(i), QueryRelation(i), reply)
            resources == Push(shared_resources, "resource", QueryType(i), QueryRelation(i), reply)
        IN  /\ replies' = Append(replies, reply)
            /\ shared_services' = services
            /\ shared_service_types' = service_types
            /\ shared_resources' = resources
            /\ IF i < FanOut
               THEN /\ calls' = Append(calls, ListObjectsRequest(req.user_id, QueryType(i + 1),
                                                                 QueryRelation(i + 1)))
                    /\ pc' = "fanout"
                    /\ resp' = resp
               ELSE /\ calls' = calls
                    /\ pc' = "done"
                    /\ resp' = SharedResourcesResponse(services, service_types, resources)
    /\ UNCHANGED <<req, check_ret>>
    /\ unchanged_config
    /\ unchanged_history

NextDiscovery ==
    \/ list_objects
    \/ ListReturns
    \/ get_shared_resources
    \/ FanOutReturns
    \/ Respond
    \/ AuthorityChanges

\* the discovery handlers run on a context that is configured (store id and
\* model id both set) or not configured at all
InitDiscovery ==
    /\ store_id \in StoreIds
    /\ authorization_model_id \in ModelIds
    /\ (store_id = <<>>) = ~authorization_model_id.some
    /\ InitIdle

SpecDiscovery == InitDiscovery /\ [][NextDiscovery]_vars

(***************************************************************************)
(* Properties of the protected routes.                                     *)
(***************************************************************************)
\* the request in flight reached a CRUD handler, which called check_permission
HandlerRan == req.op \in Operations /\ req.authenticated

Configured == store_id # <<>> /\ authorization_model_id.some

\* C1: with store id and model id configured, check_permission submits exactly
\* one Check, whose tuple is ("user:" + principal, relation, object) for the
\* relation and object it was called with, and returns the authority's allowed
\* boolean verbatim: Ok(true) only on an authority's true, Ok(false) only on an
\* authority's false, and an answered Check is never turned into anything else.
C1_CheckTupleAndVerbatim ==
    (HandlerRan /\ Configured) =>
        /\ Len(calls) = 1
        /\ calls[1].rpc = "Check"
        /\ calls[1].user = <<"u", "s", "e", "r", ":">> \o req.user_id
        /\ calls[1].relation = RequiredRelation(req.op)
        /\ calls[1].object = TargetObject(req.op, req.params)
        /\ calls[1].store_id = store_id
        /\ calls[1].authorization_model_id = authorization_model_id.val
        /\ (pc = "check" => replies = <<>> /\ check_ret = NoResult)
        /\ (pc = "done" =>
              /\ Len(replies) = 1
              /\ (check_ret.tag = "Ok" =>
                    replies[1].tag = "Ok" /\ check_ret.allowed = replies[1].allowed)
              /\ (replies[1].tag = "Ok" =>
                    check_ret.tag = "Ok" /\ check_ret.allowed = replies[1].allowed))

C1_Witness ==
    /\ HandlerRan /\ Configured /\ pc = "done"
    /\ req.user_id = <<"b", " ">>
    /\ replies = <<Ok(TRUE)>>
    /\ check_ret = Ok(TRUE)

\* C2: when the store id is empty or the model id is absent, check_permission
\* returns a configuration error and the request sends no Check at all.
C2_ConfigErrorBeforeAnyCall ==
    (HandlerRan /\ (store_id = <<>> \/ ~authorization_model_id.some)) =>
        /\ calls = <<>>
        /\ replies = <<>>
        /\ pc = "done"
        /\ check_ret.tag = "Err"
        /\ check_ret.msg \in {<<"OpenFGA store ID not configured">>,
                              <<"OpenFGA authorization model ID not configured">>}

C2_Witness ==
    /\ HandlerRan /\ pc = "done"
    /\ store_id # <<>> /\ ~authorization_model_id.some
    /\ check_ret = Err(<<"OpenFGA authorization model ID not configured">>)
    /\ calls = <<>>

\* the mapping table of the specification
TableRelation(op) ==
    CASE op = "create" -> "admin"
      [] op = "update" -> "editor"
      [] op = "read" -> "viewer"
      [] op = "delete" -> "owner"

TableObject(op, params) ==
    IF op = "create"
    THEN <<"o", "r", "g", "a", "n", "i", "s", "a", "t", "i", "o", "n", ":">> \o params.org_id
    ELSE <<"r", "e", "s", "o", "u", "r", "c", "e", ":">>
            \o params.service_name \o <<"/">> \o params.service_type \o <<"/">>
            \o params.org_id \o <<"/">> \o params.name

\* C3: every CRUD handler checks the relation and target object of the mapping
\* table: admin on organisation:<org_id> for create; editor, viewer, owner on
\* resource:<service>/<type>/<org>/<name> for update, read, delete.
C3_MappingTable ==
    \A i \in DOMAIN calls :
        (HandlerRan /\ calls[i].rpc = "Check") =>
            /\ calls[i].relation = TableRelation(req.op)
            /\ calls[i].object = TableObject(req.op, req.params)

\* C4: a negative decision ends in 403 and never in the stub's success or in a
\* server error; a checker error (configuration, unavailable, remote) ends in
\* 500 and never in 403; success needs a positive decision.
C4_DeniedVersusError ==
    (HandlerRan /\ pc = "done") =>
        LET denied == replies # <<>> /\ replies[1] = Ok(FALSE)
            granted == replies # <<>> /\ replies[1] = Ok(TRUE)
            errored == replies = <<>> \/ replies[1].tag = "Err"
        IN  /\ denied => (resp.status = StatusForbidden /\ resp.body.kind = "error"
                          /\ resp.body.error = "Permission denied")
            /\ errored => (resp.status = StatusInternalServerError
                           /\ resp.body.kind = "error"
                           /\ resp.body.error = "Failed to check permission")
            /\ granted => (resp.status \in {StatusOk, StatusCreated}
                           /\ resp.body.kind # "error")
            /\ resp.status \in {StatusForbidden, StatusInternalServerError,
                                StatusOk, StatusCreated}

C4_Witness ==
    /\ HandlerRan /\ pc = "done" /\ req.op = "delete"
    /\ req.user_id = <<"a">>
    /\ replies = <<Ok(FALSE)>>
    /\ calls[1].relation = "owner"
    /\ resp.status = StatusForbidden

\* C10: a create whose Check (admin on organisation:<org_id>) is granted ends
\* in 201 with a body that echoes organisation = the path's org_id and holds
\* nothing of the payload; the handler made that one Check and nothing else.
C10_CreateEchoesOrgId ==
    (HandlerRan /\ pc = "done" /\ req.op = "create"
        /\ replies # <<>> /\ replies[1] = Ok(TRUE)) =>
        /\ Len(calls) = 1
        /\ calls[1].relation = "admin"
        /\ calls[1].object
             = <<"o", "r", "g", "a", "n", "i", "s", "a", "t", "i", "o", "n", ":">>
                 \o req.params.org_id
        /\ resp = [status |-> StatusCreated,
                   body |-> [kind |-> "created",
                             message |-> "Resource created successfully",
                             organisation |-> req.params.org_id]]

C10_Witness ==
    /\ HandlerRan /\ pc = "done" /\ req.op = "create"
    /\ replies = <<Ok(TRUE)>>
    /\ req.params.org_id = <<"y">>
    /\ req.payload.organisation = <<"z">>
    /\ resp.status = StatusCreated
    /\ resp.body.organisation = <<"y">>

(***************************************************************************)
(* Properties of comprehensive discovery.                                  *)
(***************************************************************************)
\* get_shared_resources has returned
FanOutDone == req.op = "shared" /\ pc = "done"

Queries == 1..9
Collections == {"service", "service_type", "resource"}

\* the collection of the response that holds the records of one type
CollectionOf(body, t) ==
    CASE t = "service" -> body.services
      [] t = "service_type" -> body.service_types
      [] t = "resource" -> body.resources

\* the well-formed identifiers of each type, as the specification gives them:
\* service:<name>, service_type:<service>/<type>, resource:<service>/<type>/<name>
HasPrefix(x, p) == Len(x) >= Len(p) /\ \A k \in 1..Len(p) : x[k] = p[k]
Slashes(x) == Cardinality({k \in DOMAIN x : x[k] = "/"})
WellFormed(t, x) ==
    CASE t = "service" -> HasPrefix(x, <<"s", "e", "r", "v", "i", "c", "e", ":">>)
      [] t = "service_type" ->
            /\ HasPrefix(x, <<"s", "e", "r", "v", "i", "c", "e", "_", "t", "y", "p", "e", ":">>)
            /\ Slashes(x) = 1
      [] t = "resource" ->
            /\ HasPrefix(x, <<"r", "e", "s", "o", "u", "r", "c", "e", ":">>)
            /\ Slashes(x) = 2

Range(v) == {v[k] : k \in DOMAIN v}

\* a response as the mapping the claims speak of: per type, each identifier with
\* its set of relations
Mapping(body) ==
    [t \in Collections |-> {<<rec.id, Range(rec.permissions)>> : rec \in CollectionOf(body, t)}]

\* the mapping that the answers in `answered` amount to: identifier x of type t
\* has relation r iff the (t, r) query is in `answered`, succeeded and returned
\* x in well-formed shape
UnionOf(answered) ==
    [t \in Collections |->
        LET from(x) == {i \in answered : /\ QueryType(i) = t
                                         /\ replies[i].tag = "Ok"
                                         /\ x \in Range(replies[i].objects)}
            ids == {x \in Pool : WellFormed(t, x) /\ from(x) # {}}
        IN  {<<x, {QueryRelation(i) : i \in from(x)}>> : x \in ids}]

\* the vector of one collection when the answers are processed in `order`
RECURSIVE VecInOrder(_, _)
VecInOrder(collection, order) ==
    IF order = <<>> THEN <<>>
    ELSE LET i == order[Len(order)]
         IN  Push(VecInOrder(collection, SubSeq(order, 1, Len(order) - 1)),
                  collection, QueryType(i), QueryRelation(i), replies[i])

ResponseInOrder(order) ==
    SharedResourcesResponse(VecInOrder("service", order),
                            VecInOrder("service_type", order),
                            VecInOrder("resource", order))

\* the queries whose answer pushes at least one record
Contributing ==
    {i \in Queries : Contribution(QueryType(i), QueryRelation(i), replies[i]) # <<>>}

RECURSIVE Ascending(_)
Ascending(S) ==
    IF S = {} THEN <<>>
    ELSE LET least == CHOOSE m \in S : \A k \in S : m <= k
         IN  <<least>> \o Ascending(S \ {least})

PermutationsOf(S) ==
    LET n == Cardinality(S)
    IN  {q \in [1..n -> S] : \A j, k \in 1..n : j # k => q[j] # q[k]}

\* Orders of the 9 answers: the contributing answers in every relative order,
\* followed by the answers that push nothing; and the loops' order and its
\* reverse, where those are in between.  An answer that pushes nothing leaves
\* the three vectors as they are wherever it is processed.
Orders ==
    LET rest == Ascending(Queries \ Contributing)
        all == Ascending(Queries)
    IN  {q \o rest : q \in PermutationsOf(Contributing)}
            \cup {all, [k \in 1..Len(all) |-> all[Len(all) + 1 - k]]}

\* C5: the merge is commutative: whatever the order in which the 9 answers are
\* processed, the result is the one the handler returned: the same identifiers
\* per type, each with the same set of relations.
C5_MergeCommutative ==
    FanOutDone =>
        \A order \in Orders :
            LET response == ResponseInOrder(order)
            IN  /\ response.status = resp.status
                /\ Mapping(response.body) = Mapping(resp.body)

\* the same identifier came back from two queries of different relations
C5_Witness ==
    /\ FanOutDone
    /\ \E i, j \in Queries :
        /\ i < j
        /\ QueryType(i) = QueryType(j)
        /\ Contribution(QueryType(i), QueryRelation(i), replies[i]) # <<>>
        /\ replies[i].objects = replies[j].objects
        /\ \E rec \in CollectionOf(resp.body, QueryType(i)) :
            Range(rec.permissions) = {QueryRelation(i), QueryRelation(j)}

\* C6: when exactly one of the 9 queries fails, the request still succeeds and
\* the result is exactly the union of what the other 8 returned.
C6_OneFailureIsPartial ==
    (FanOutDone /\ Failures(replies) = 1) =>
        /\ Len(calls) = 9
        /\ Len(replies) = 9
        /\ resp.status = StatusOk
        /\ resp.body.kind = "shared"
        /\ Mapping(resp.body) = UnionOf({i \in Queries : replies[i].tag = "Ok"})

\* a query in the middle of the fan-out fails; queries before and after it
\* return an object, and both objects are in the result
C6_Witness ==
    /\ FanOutDone
    /\ Failures(replies) = 1
    /\ \E i, f \in Queries :
        /\ i < f
        /\ replies[f].tag = "Err"
        /\ Contribution(QueryType(i), QueryRelation(i), replies[i]) # <<>>
        /\ \E rec \in CollectionOf(resp.body, QueryType(i)) : rec.id = replies[i].objects[1]
    /\ resp.status = StatusOk

\* C7: when every one of the 9 queries fails, comprehensive discovery returns
\* an error outcome, not a successful empty result.
C7_TotalFailureIsError ==
    (FanOutDone /\ \A i \in Queries : replies[i].tag = "Err") => resp.status # StatusOk

\* C8: a service_type identifier whose path has not exactly two segments and a
\* resource identifier whose path has not exactly three never appear in the
\* result; dropping them raises no error, and every well-formed identifier an
\* answer holds is in the result, with that answer's relation.
C8_SegmentCountMismatchDropped ==
    FanOutDone =>
        /\ resp.status = StatusOk
        /\ \A t \in Collections : \A rec \in CollectionOf(resp.body, t) : WellFormed(t, rec.id)
        /\ \A i \in Queries : \A x \in Range(replies[i].objects) :
            WellFormed(QueryType(i), x) =>
                \E rec \in CollectionOf(resp.body, QueryType(i)) :
                    rec.id = x /\ QueryRelation(i) \in Range(rec.permissions)

\* one answer holds service_type:a/b/c and service_type:a/b: only the latter is kept
C8_Witness ==
    /\ FanOutDone
    /\ \E i \in Queries :
        /\ QueryType(i) = "service_type"
        /\ replies[i].objects = <<ServiceTypePrefix \o <<"a", "/", "b", "/", "c">>,
                                  ServiceTypePrefix \o <<"a", "/", "b">>>>
    /\ {rec.id : rec \in resp.body.service_types} = {ServiceTypePrefix \o <<"a", "/", "b">>}

\* a resource with four segments is dropped too
C8_WitnessResource ==
    /\ FanOutDone
    /\ \E i \in Queries :
        /\ QueryType(i) = "resource"
        /\ replies[i].objects = <<ResourcePrefix \o <<"a", "/", "b", "/", "c", "/", "d">>,
                                  ResourcePrefix \o <<"a", "/", "b", "/", "c">>>>
    /\ {rec.id : rec \in resp.body.resources} = {ResourcePrefix \o <<"a", "/", "b", "/", "c">>}

\* C9: in every call made to the authority (the Check of check_permission, the
\* ListObjects of list_objects and of the fan-out) the user field is "user:"
\* followed by the caller's principal.
C9_UserAlwaysPrefixed ==
    \A i \in DOMAIN calls :
        calls[i].user = <<"u", "s", "e", "r", ":">> \o req.user_id

(***************************************************************************)
(* Properties of single-query discovery.                                   *)
(***************************************************************************)
\* C11: list_objects issues exactly one ListObjects query, for relation
\* "viewer" and type "resource" when the parameters are absent and for the
\* given values otherwise; on success it returns the authority's list as it
\* came, its length as total_count and the type and relation queried; on
\* failure it returns an error and no list.
C11_SingleQuery ==
    req.op = "list" =>
        LET relation == IF req.relation.some THEN req.relation.val ELSE "viewer"
            object_type == IF req.object_type.some THEN req.object_type.val ELSE "resource"
        IN  /\ Len(calls) = 1
            /\ calls[1].rpc = "ListObjects"
            /\ calls[1].relation = relation
            /\ calls[1].type = object_type
            /\ shared_services = <<>> /\ shared_service_types = <<>> /\ shared_resources = <<>>
            /\ (pc = "list" => replies = <<>> /\ resp = NoResp)
            /\ (pc = "done" =>
                  /\ Len(replies) = 1
                  /\ (replies[1].tag = "Ok" =>
                        resp = [status |-> StatusOk,
                                body |-> [kind |-> "list",
                                          objects |-> replies[1].objects,
                                          total_count |-> Len(replies[1].objects),
                                          object_type |-> object_type,
                                          relation |-> relation]])
                  /\ (replies[1].tag = "Err" =>
                        /\ resp.status = StatusInternalServerError
                        /\ resp.body.kind = "error"
                        /\ resp.body.error = "Failed to list objects"))

\* no parameters given; the authority returns two objects, kept in order
C11_Witness ==
    /\ req.op = "list" /\ pc = "done"
    /\ ~req.relation.some /\ ~req.object_type.some
    /\ calls[1].relation = "viewer" /\ calls[1].type = "resource"
    /\ replies[1].objects = <<ResourcePrefix \o <<"a", "/", "b", "/", "c">>,
                              ServicePrefix \o <<"a">>>>
    /\ resp.body.objects = replies[1].objects
    /\ resp.body.total_count = 2

(***************************************************************************)
(* Properties of the collections of a discovery result.                    *)
(***************************************************************************)
TypePrefix(t) ==
    CASE t = "service" -> <<"s", "e", "r", "v", "i", "c", "e", ":">>
      [] t = "service_type" -> <<"s", "e", "r", "v", "i", "c", "e", "_", "t", "y", "p", "e", ":">>
      [] t = "resource" -> <<"r", "e", "s", "o", "u", "r", "c", "e", ":">>

IdsOf(body, t) == {rec.id : rec \in CollectionOf(body, t)}

\* the vector the handler gathered for one collection
VecOf(t) ==
    CASE t = "service" -> shared_services
      [] t = "service_type" -> shared_service_types
      [] t = "resource" -> shared_resources

\* C12: in the result of get_shared_resources, whatever the authority
\* answered, each identifier appears at most once in its collection, every
\* record's id carries the type prefix of its collection, and the three
\* collections share no identifier.
C12_CollectionsDisjointAndKeyed ==
    FanOutDone =>
        /\ \A t \in Collections :
              /\ \A r1, r2 \in CollectionOf(resp.body, t) : r1.id = r2.id => r1 = r2
              /\ \A rec \in CollectionOf(resp.body, t) : HasPrefix(rec.id, TypePrefix(t))
        /\ \A t1, t2 \in Collections :
              t1 # t2 => IdsOf(resp.body, t1) \cap IdsOf(resp.body, t2) = {}

\* a query for services is answered with a resource id next to a service id:
\* only the service is kept, and in the services collection
C12_Witness ==
    /\ FanOutDone
    /\ \E i \in Queries :
          /\ QueryType(i) = "service"
          /\ replies[i].tag = "Ok"
          /\ replies[i].objects = <<ResourcePrefix \o <<"a", "/", "b", "/", "c">>,
                                    ServicePrefix \o <<"a">>>>
    /\ IdsOf(resp.body, "service") = {ServicePrefix \o <<"a">>}
    /\ IdsOf(resp.body, "resource") = {}

\* one query returns the same id twice: the collection holds it once
C12_WitnessRepeated ==
    /\ FanOutDone
    /\ \E i \in Queries :
          /\ replies[i].tag = "Ok"
          /\ Len(replies[i].objects) = 2
          /\ replies[i].objects[1] = replies[i].objects[2]
          /\ Len(VecOf(QueryType(i))) = 2
          /\ Cardinality(CollectionOf(resp.body, QueryType(i))) = 1

\* the fields of a record other than its permissions
OtherFields(rec) == [rec EXCEPT !.permissions = <<>>]

\* the first record of a vector with a given id
FirstOccurrence(vec, id) ==
    vec[CHOOSE k \in DOMAIN vec :
            /\ vec[k].id = id
            /\ \A j \in 1..(k - 1) : vec[j].id # id]

\* C13: in the result of get_shared_resources the record of identifier x of
\* type t lists relation r iff the (t, r) query succeeded and returned x in
\* well-formed shape; every permission list is non-empty, without duplicates
\* and within {viewer, editor, admin}; the other fields of a record are those
\* of its first occurrence.
C13_MergeIsUnion ==
    FanOutDone =>
        /\ Mapping(resp.body) = UnionOf(Queries)
        /\ \A t \in Collections : \A rec \in CollectionOf(resp.body, t) :
              /\ rec.permissions # <<>>
              /\ Cardinality(Range(rec.permissions)) = Len(rec.permissions)
              /\ Range(rec.permissions) \subseteq Range(relations)
              /\ rec.shared_via = "parent_organization"
              /\ \E k \in DOMAIN VecOf(t) : VecOf(t)[k].id = rec.id
              /\ OtherFields(rec) = OtherFields(FirstOccurrence(VecOf(t), rec.id))

\* the same resource is returned for viewer and for admin: one record with both
C13_Witness ==
    /\ FanOutDone
    /\ \E i, j \in Queries :
          /\ QueryType(i) = "resource" /\ QueryRelation(i) = "viewer"
          /\ QueryType(j) = "resource" /\ QueryRelation(j) = "admin"
          /\ replies[i].tag = "Ok" /\ replies[j].tag = "Ok"
          /\ replies[i].objects = <<ResourcePrefix \o <<"a", "/", "b", "/", "c">>>>
          /\ replies[j].objects = replies[i].objects
    /\ Len(shared_resources) = 2
    /\ \E rec \in resp.body.resources :
          /\ Cardinality(resp.body.resources) = 1
          /\ rec.permissions = <<"admin", "viewer">>
          /\ rec.resource_name = <<"c">>

(***************************************************************************)
(* Properties of the configuration precondition of the list calls.         *)
(***************************************************************************)
\* C15: when the store id is empty or the model id is absent, list_objects
\* and get_shared_resources report a configuration error and send no
\* ListObjects request to the authority.
C15_NoListCallWithoutConfig ==
    (req.op \in {"list", "shared"} /\ ~Configured) =>
        /\ calls = <<>>
        /\ pc = "done"
        /\ resp.status = StatusInternalServerError

(***************************************************************************)
(* Properties of check_permission's error classification.                  *)
(***************************************************************************)
Unavailable ==
    <<"OpenFGA server is not available. Please check server status and configuration.">>
RemoteError(msg) == <<"OpenFGA permission check failed: ">> \o msg

\* the failure's text speaks of a transport error or of a refused connection
TransportLevel(msg) ==
    \E k \in DOMAIN msg : msg[k] \in {"transport error", "Connection refused"}

\* C16: a failed Check is returned by check_permission as exactly one of two
\* errors, Unavailable when the failure's message indicates a transport error
\* or a refused connection and RemoteError carrying the underlying message
\* otherwise; it is never turned into a decision, and no further call is made
\* to the authority.
C16_FailureClassified ==
    (req.op \in Operations /\ Len(replies) = 1 /\ replies[1].tag = "Err") =>
        /\ check_ret.tag = "Err"
        /\ check_ret.msg = IF TransportLevel(replies[1].msg)
                           THEN Unavailable
                           ELSE RemoteError(replies[1].msg)
        /\ Unavailable # RemoteError(replies[1].msg)
        /\ Len(calls) = 1
        /\ calls[1].rpc = "Check"
        /\ resp.status = StatusInternalServerError

\* the connection is refused: Unavailable
C16_Witness ==
    /\ req.op \in Operations /\ pc = "done"
    /\ Len(replies) = 1 /\ replies[1].tag = "Err"
    /\ replies[1].msg = <<"tcp connect error: ", "Connection refused", " (os error 111)">>
    /\ check_ret = Err(Unavailable)

\* the authority rejects the request: RemoteError with the authority's message
C16_WitnessRemote ==
    /\ req.op \in Operations /\ pc = "done"
    /\ Len(replies) = 1 /\ replies[1].tag = "Err"
    /\ ~TransportLevel(replies[1].msg)
    /\ check_ret = Err(RemoteError(replies[1].msg))

(***************************************************************************)
(* Properties of the identity gate.                                        *)
(***************************************************************************)
Blank(v) == \A k \in DOMAIN v : v[k] = " "

\* C17: on the CRUD routes a handler runs, and a call is made to the
\* authority, only for a request whose X-User-Id header is present, text and
\* not blank; a missing header ends in 401, a blank or non-text one in 400,
\* both without a handler run or a Check; the handler's principal is the
\* header value unchanged.
C17_IdentityGate ==
    req.op \in Operations =>
        LET header == req.header
            valid == header.present /\ header.text /\ ~Blank(header.value)
        IN  /\ (req.authenticated \/ calls # <<>> \/ check_ret # NoResult) => valid
            /\ ~header.present =>
                  /\ pc = "done" /\ resp.status = StatusUnauthorized
                  /\ ~req.authenticated /\ calls = <<>> /\ replies = <<>>
            /\ (header.present /\ (~header.text \/ Blank(header.value))) =>
                  /\ pc = "done" /\ resp.status = StatusBadRequest
                  /\ ~req.authenticated /\ calls = <<>> /\ replies = <<>>
            /\ valid =>
                  /\ req.authenticated
                  /\ req.user_id = header.value
                  /\ \A k \in DOMAIN calls : calls[k].user = UserPrefix \o header.value

\* a header with trailing whitespace passes the gate and is handed on as it is
C17_Witness ==
    /\ req.op \in Operations /\ pc = "done"
    /\ req.header = TextHeader(<<"b", " ">>)
    /\ req.authenticated
    /\ req.user_id = <<"b", " ">>
    /\ Len(calls) = 1
    /\ calls[1].user = <<"u", "s", "e", "r", ":", "b", " ">>
    /\ resp.status \in {StatusOk, StatusCreated}

\* a whitespace-only header is stopped with 400 before any handler
C17_WitnessBlank ==
    /\ req.op \in Operations /\ pc = "done"
    /\ req.header = TextHeader(<<" ">>)
    /\ ~req.authenticated /\ calls = <<>>
    /\ resp.status = StatusBadRequest

(***************************************************************************)
(* Properties of the per-request ordering.                                 *)
(***************************************************************************)
Success == req.op \in Operations /\ resp.status \in {StatusOk, StatusCreated}
Denied == req.op \in Operations /\ resp.status = StatusForbidden

\* what holds of every state of a CRUD request
C14_State ==
    req.op \in Operations =>
        /\ (HandlerRan /\ Configured) => (Len(calls) = 1 /\ calls[1].rpc = "Check")
        /\ Len(calls) <= 1
        /\ Success => (pc = "done" /\ Len(calls) = 1 /\ replies = <<Ok(TRUE)>>)
        /\ Denied => (pc = "done" /\ Len(calls) = 1 /\ replies = <<Ok(FALSE)>>)
        /\ (pc = "done" /\ Len(replies) = 1 /\ replies[1].tag = "Ok") =>
              IF replies[1].allowed THEN Success ELSE Denied

\* what holds of every step of a CRUD request
C14_Step ==
    /\ (Success' /\ ~Success) =>
          /\ pc = "check" /\ Len(calls) = 1 /\ calls' = calls
          /\ replies = <<>> /\ replies' = <<Ok(TRUE)>>
    /\ Denied => (pc' = "idle" /\ req' = NoReq /\ calls' = <<>> /\ resp' = NoResp)

\* C14: a CRUD request succeeds only in the step in which the one Check it
\* sent returns allowed; a request that passes the configuration precondition
\* sends exactly one Check; the outcome follows the answer given to this
\* request, whatever was answered to an earlier request for the same
\* (principal, relation, object); after a denial the request only ends.
C14_PerRequestNoCaching == [](C14_State) /\ [][C14_Step]_vars

\* the earlier request was allowed, this one for the same tuple is denied
C14_Witness ==
    /\ req.op \in Operations /\ pc = "done"
    /\ Len(calls) = 1
    /\ prev.some
    /\ prev.key = TupleOf(calls[1])
    /\ prev.reply = Ok(TRUE)
    /\ replies = <<Ok(FALSE)>>
    /\ Denied

\* the earlier request was denied, this one for the same tuple is allowed
C14_WitnessGranted ==
    /\ req.op \in Operations /\ pc = "done"
    /\ Len(calls) = 1
    /\ prev.some
    /\ prev.key = TupleOf(calls[1])
    /\ prev.reply = Ok(FALSE)
    /\ replies = <<Ok(TRUE)>>
    /\ Success

====
